---- MODULE Spec2Model ----
(***************************************************************************)
(* strawberry_django_plus/types.py: the registration decorator `register`  *)
(* and the field type resolver `resolve_model_field_type`.                 *)
(*                                                                         *)
(* State: the process-wide registry `field_type_map`, the import-time flag *)
(* `has_choices_field`, the `_enum_definition` attribute of every enum     *)
(* class, and the one decorator (closure `_wrapper`) the caller holds.     *)
(* Every Python object a call can return is a record                       *)
(* [tag, name, serial, description]; two records are the same object iff   *)
(* they are equal (serial tells two EnumDefinition objects of one enum     *)
(* class apart).                                                           *)
(***************************************************************************)
EXTENDS Naturals, Sequences, FiniteSets

\* ---------------------------------------------------------------- bounds
\* Longest iterable handed to register().
MaxFields == 2
\* Cap on how many times one enum class may be passed to strawberry.enum
\* (only a resolver that wraps again and again ever gets near it).
MaxWraps == 3

\* ------------------------------------------------------------- universes
\* Column classes (django.db.models.fields.Field subclasses).  StatusField
\* stands for a project's own subclass of TextChoicesField.
ColumnTypes ==
    {"CharField", "ImageField", "TextChoicesField", "IntegerChoicesField", "StatusField"}

\* The classes registrations are drawn from.
Registrable == {"CharField", "TextChoicesField"}

\* Python's method resolution order below Field: the classes an instance of
\* the class is an instance of.
Mro ==
    [c \in ColumnTypes |->
        IF c = "StatusField" THEN {"StatusField", "TextChoicesField"} ELSE {c}]

\* enum.Enum subclasses used as choices_enum.
EnumTypes == {"Color", "Kind"}

NoDoc == [indent |-> 0, text |-> "None"]

\* field_type.__doc__ of each enum class.
EnumDoc ==
    [e \in EnumTypes |->
        IF e = "Color" THEN [indent |-> 4, text |-> "The colour."] ELSE NoDoc]

\* Python's None.
None == [tag |-> "None", name |-> "None", serial |-> 0, description |-> NoDoc]

\* A schema type (StrawberryType or ScalarWrapper) the caller registers.
SchemaType(n) == [tag |-> "type", name |-> n, serial |-> 0, description |-> NoDoc]

SchemaTypes == {SchemaType("T1"), SchemaType("T2")}

\* The serial-th EnumDefinition object made for enum class e.
EnumDefinition(e, serial, doc) ==
    [tag |-> "EnumDefinition", name |-> e, serial |-> serial, description |-> doc]

\* An exception leaving the call.
Raise(err) == [tag |-> "raise", name |-> err, serial |-> 0, description |-> NoDoc]

\* A new object made from a schema type (what a wrapper or a copy would be).
CopyOf(v) == [v EXCEPT !.tag = "copy"]

\* Model field instances: their class and, for a choices field, choices_enum.
ModelFields ==
    { [name |-> "title",  type |-> "CharField",           choices_enum |-> "None"],
      [name |-> "photo",  type |-> "ImageField",          choices_enum |-> "None"],
      [name |-> "color",  type |-> "TextChoicesField",    choices_enum |-> "Color"],
      [name |-> "shade",  type |-> "IntegerChoicesField", choices_enum |-> "Color"],
      [name |-> "status", type |-> "StatusField",         choices_enum |-> "Kind"] }

NoField == [name |-> "None", type |-> "None", choices_enum |-> "None"]

\* isinstance(obj, classes) for a tuple of classes.
IsInstance(model_field, classes) == Mro[model_field.type] \cap classes # {}

\* Sequences over S of length at most n.
SeqUpTo(S, n) == UNION { [1..k -> S] : k \in 0..n }

\* The values register()'s first parameter is drawn from: one column class,
\* a re-iterable collection (list, tuple) of them, or a one-shot iterator
\* (generator) over them.
FieldsArgs ==
    { [shape |-> "type", items |-> <<c>>] : c \in Registrable }
    \cup { [shape |-> sh, items |-> s] :
             sh \in {"sequence", "iterator"}, s \in SeqUpTo(Registrable, MaxFields) }

VARIABLES
    has_choices_field,  \* module global set by the try/except import
    field_type_map,     \* strawberry_django's registry: column class -> schema type
    enum_definition,    \* enum class -> its _enum_definition attribute (None: absent)
    wraps,              \* enum class -> calls of strawberry.enum on it so far
    returned,           \* enum class -> the (field, descriptor) pairs resolutions returned
    decorator,          \* the closure register() returned last, its iterator's state and
                        \*   the for_input it was made with (kept beside it, not in it)
    recent,             \* registrable class -> the latest registration applied for it
    call,               \* the last call: its arguments and its result
    shadow_decorator,   \* the same run with for_input=False everywhere:
    shadow_map,         \*   its closure, its registry
    shadow_ret          \*   and its last result

vars ==
    << has_choices_field, field_type_map, enum_definition, wraps, returned,
       decorator, recent, call, shadow_decorator, shadow_map, shadow_ret >>

\* ---------------------------------------------------------------- register

NoDecorator ==
    [shape |-> "None", items |-> <<>>, consumed |-> FALSE, for_input |-> FALSE]

\* register(fields, /, *, for_input): returns the closure _wrapper over
\* `fields`; _wrapper's body never reads for_input.
register(fields, for_input) ==
    [ shape |-> fields.shape, items |-> fields.items, consumed |-> FALSE,
      for_input |-> for_input ]

\* What `for f in (fields if isinstance(fields, Iterable) else [fields])`
\* visits: a class is no Iterable and is visited alone, a collection yields
\* its elements on every pass, an iterator yields them once.
Visited(closure) ==
    IF closure.shape = "type" THEN closure.items
    ELSE IF closure.shape = "iterator" /\ closure.consumed THEN <<>>
    ELSE closure.items

\* Mutant: the loop body as field_type_map.setdefault(f, type_), which keeps
\* an entry that is already there.
RECURSIVE StoreAll_setdefault(_, _, _)
StoreAll_setdefault(fs, type_, map) ==
    IF fs = <<>> THEN map
    ELSE StoreAll_setdefault(Tail(fs), type_,
            IF map[Head(fs)] = None THEN [map EXCEPT ![Head(fs)] = type_] ELSE map)

\* The loop body, field_type_map[f] = type_, over the visited classes in order.
RECURSIVE StoreAll(_, _, _)
StoreAll(fs, type_, map) ==
    IF fs = <<>> THEN map
    ELSE StoreAll(Tail(fs), type_, [map EXCEPT ![Head(fs)] = type_])

\* Mutant: _wrapper returns a new object made from type_, not type_ itself.
_wrapper_copy(closure, type_, map) ==
    [ map      |-> StoreAll(Visited(closure), type_, map),
      consumed |-> closure.consumed \/ closure.shape = "iterator",
      ret      |-> CopyOf(type_) ]

\* Mutant: a closure made with for_input=True leaves field_type_map alone (as
\* if input-only mappings were kept elsewhere).
_wrapper_input_only(closure, type_, map) ==
    [ map      |-> IF closure.for_input THEN map
                   ELSE StoreAll(Visited(closure), type_, map),
      consumed |-> closure.consumed \/ closure.shape = "iterator",
      ret      |-> type_ ]

\* Mutant: _wrapper writes its entries into a fresh table that replaces the
\* registry, so every other entry is lost.
_wrapper_rebuild(closure, type_, map) ==
    [ map      |-> StoreAll(Visited(closure), type_, [c \in DOMAIN map |-> None]),
      consumed |-> closure.consumed \/ closure.shape = "iterator",
      ret      |-> type_ ]

\* _wrapper(type_): the registry after the loop, the iterator's state and the
\* value returned.
_wrapper(closure, type_, map) ==
    [ map      |-> StoreAll(Visited(closure), type_, map),
      consumed |-> closure.consumed \/ closure.shape = "iterator",
      ret      |-> type_ ]

\* ---------------------------------------------------------------- resolver

\* inspect.cleandoc: strips the common indentation.
cleandoc(doc) == [doc EXCEPT !.indent = 0]

\* strawberry.enum(field_type, description=doc): builds a new EnumDefinition,
\* stores it on the class as _enum_definition and returns the class.  The
\* result holds the _enum_definition attributes and wrap counts afterwards.
strawberry_enum(field_type, doc) ==
    LET made == EnumDefinition(field_type, wraps[field_type] + 1, doc)
    IN  [ enum_definition |-> [enum_definition EXCEPT ![field_type] = made],
          wraps |-> [wraps EXCEPT ![field_type] = @ + 1] ]

\* strawberry_django.fields.types.resolve_model_field_type: looks the field's
\* concrete class up in field_type_map (registrations and built-in defaults
\* share the table) and fails when it has no entry.
_resolve_model_field(model_field, map) ==
    IF map[model_field.type] = None THEN Raise("UnsupportedFieldType")
    ELSE map[model_field.type]

\* The result of resolve_model_field_type when it leaves the enum classes alone.
Plain(ret, delegated) ==
    [ ret |-> ret, enum_definition |-> enum_definition, wraps |-> wraps,
      delegated |-> delegated ]

\* The enum branch of resolve_model_field_type (lines 79-84).
EnumBranch(model_field) ==
    LET field_type == model_field.choices_enum
        enum_def   == enum_definition[field_type]
        doc        == IF EnumDoc[field_type] = NoDoc THEN NoDoc
                      ELSE cleandoc(EnumDoc[field_type])
        wrapped    == strawberry_enum(field_type, doc)
    IN  IF enum_def = None
        THEN [ ret |-> wrapped.enum_definition[field_type],
               enum_definition |-> wrapped.enum_definition,
               wraps |-> wrapped.wraps,
               delegated |-> FALSE ]
        ELSE Plain(enum_def, FALSE)

\* Mutant: the enum branch without the `if enum_def is None` test: every
\* resolution wraps the enum class again.
resolve_model_field_type_rewraps(model_field, map) ==
    IF has_choices_field
         /\ IsInstance(model_field, {"TextChoicesField", "IntegerChoicesField"})
    THEN LET field_type == model_field.choices_enum
             doc        == IF EnumDoc[field_type] = NoDoc THEN NoDoc
                           ELSE cleandoc(EnumDoc[field_type])
             wrapped    == strawberry_enum(field_type, doc)
         IN  [ ret |-> wrapped.enum_definition[field_type],
               enum_definition |-> wrapped.enum_definition,
               wraps |-> wrapped.wraps,
               delegated |-> FALSE ]
    ELSE Plain(_resolve_model_field(model_field, map), TRUE)

\* Mutant: the default resolution wrapped in try/except, None returned for an
\* unsupported field.
resolve_model_field_type_swallows(model_field, map) ==
    IF has_choices_field
         /\ IsInstance(model_field, {"TextChoicesField", "IntegerChoicesField"})
    THEN EnumBranch(model_field)
    ELSE LET r == _resolve_model_field(model_field, map)
         IN  Plain(IF r.tag = "raise" THEN None ELSE r, TRUE)

\* Mutant: the registry is looked up first and the enum branch is taken only
\* for a class without an entry.
resolve_model_field_type_registry_first(model_field, map) ==
    IF map[model_field.type] # None
    THEN Plain(_resolve_model_field(model_field, map), TRUE)
    ELSE IF has_choices_field
              /\ IsInstance(model_field, {"TextChoicesField", "IntegerChoicesField"})
         THEN EnumBranch(model_field)
         ELSE Plain(_resolve_model_field(model_field, map), TRUE)

\* Mutant: the isinstance test written before the flag.  Without the
\* integration the names TextChoicesField and IntegerChoicesField are unbound
\* and evaluating the tuple raises NameError.
resolve_model_field_type_unguarded(model_field, map) ==
    IF ~has_choices_field THEN Plain(Raise("NameError"), FALSE)
    ELSE IF IsInstance(model_field, {"TextChoicesField", "IntegerChoicesField"})
         THEN EnumBranch(model_field)
         ELSE Plain(_resolve_model_field(model_field, map), TRUE)

\* resolve_model_field_type(model_field, django_type) against registry `map`:
\* the value returned (or the exception), the _enum_definition attributes and
\* wrap counts afterwards, and whether the default resolution was called.
resolve_model_field_type(model_field, map) ==
    IF has_choices_field
         /\ IsInstance(model_field, {"TextChoicesField", "IntegerChoicesField"})
    THEN EnumBranch(model_field)
    ELSE Plain(_resolve_model_field(model_field, map), TRUE)

\* ------------------------------------------------------------------ state

\* The registry as strawberry_django seeds it: a built-in default for
\* CharField, none for the other classes.
SeedMap == [c \in ColumnTypes |-> IF c = "CharField" THEN SchemaType("str") ELSE None]

\* Kind was decorated with @strawberry.enum at its definition and carries a
\* descriptor already; Color is a plain enum.Enum.
SeedEnumDefinition ==
    [e \in EnumTypes |-> IF e = "Kind" THEN EnumDefinition("Kind", 0, NoDoc) ELSE None]

NoCall ==
    [ op |-> "None", model_field |-> NoField, type_ |-> None, for_input |-> FALSE,
      ret |-> None, delegated |-> FALSE ]

NoRecent == [type_ |-> None, shape |-> "None"]

Init ==
    /\ has_choices_field \in BOOLEAN
    /\ field_type_map = SeedMap
    /\ enum_definition = SeedEnumDefinition
    /\ wraps = [e \in EnumTypes |-> 0]
    /\ returned = [e \in EnumTypes |-> {}]
    /\ decorator = NoDecorator
    /\ recent = [c \in Registrable |-> NoRecent]
    /\ call = NoCall
    /\ shadow_decorator = NoDecorator
    /\ shadow_map = SeedMap
    /\ shadow_ret = None

\* decorator = register(fields, for_input=for_input)
Register(fields, for_input) ==
    /\ decorator' = register(fields, for_input)
    /\ shadow_decorator' = register(fields, FALSE)
    /\ call' = [NoCall EXCEPT !.op = "register", !.for_input = for_input]
    /\ shadow_ret' = None
    /\ UNCHANGED << has_choices_field, field_type_map, enum_definition, wraps,
                    returned, recent, shadow_map >>

\* decorator(type_)
Apply(type_) ==
    /\ decorator # NoDecorator
    /\ LET r == _wrapper(decorator, type_, field_type_map)
           s == _wrapper(shadow_decorator, type_, shadow_map)
       IN  /\ field_type_map' = r.map
           /\ decorator' = [decorator EXCEPT !.consumed = r.consumed]
           /\ call' = [NoCall EXCEPT !.op = "apply", !.type_ = type_, !.ret = r.ret]
           /\ shadow_map' = s.map
           /\ shadow_decorator' = [shadow_decorator EXCEPT !.consumed = s.consumed]
           /\ shadow_ret' = s.ret
    /\ recent' =
         [c \in Registrable |->
            IF \E i \in 1..Len(decorator.items) : decorator.items[i] = c
            THEN [type_ |-> type_, shape |-> decorator.shape]
            ELSE recent[c]]
    /\ UNCHANGED << has_choices_field, enum_definition, wraps, returned >>

\* resolve_model_field_type(model_field, django_type)
Resolve(model_field) ==
    LET r == resolve_model_field_type(model_field, field_type_map)
        s == resolve_model_field_type(model_field, shadow_map)
    IN  /\ \A e \in EnumTypes : r.wraps[e] <= MaxWraps
        /\ enum_definition' = r.enum_definition
        /\ wraps' = r.wraps
        /\ returned' =
             IF r.delegated THEN returned
             ELSE [returned EXCEPT ![model_field.choices_enum] =
                                     @ \cup {[field |-> model_field.name, ret |-> r.ret]}]
        /\ call' = [NoCall EXCEPT !.op = "resolve", !.model_field = model_field,
                                  !.ret = r.ret, !.delegated = r.delegated]
        /\ shadow_ret' = s.ret
        /\ UNCHANGED << has_choices_field, field_type_map, decorator, recent,
                        shadow_decorator, shadow_map >>

Next ==
    \/ \E fields \in FieldsArgs, for_input \in BOOLEAN : Register(fields, for_input)
    \/ \E type_ \in SchemaTypes : Apply(type_)
    \/ \E model_field \in ModelFields : Resolve(model_field)

Spec == Init /\ [][Next]_vars

\* ----------------------------------------------------------------- claims

ChoiceKinds == {"TextChoicesField", "IntegerChoicesField"}

\* The column classes the closure held in `decorator` was given.
Given == { decorator.items[i] : i \in 1..Len(decorator.items) }

\* C1: once register(A)(T) is the latest registration applied for a
\* non-choice column class A, resolving a field whose class is exactly A
\* returns T, whatever was registered for other classes.
C1_RegisteredTypeResolved ==
    \A A \in Registrable :
        ( /\ call.op = "resolve"
          /\ call.model_field.type = A
          /\ ~IsInstance(call.model_field, ChoiceKinds)
          /\ recent[A].shape = "type" )
        => call.ret = recent[A].type_

\* C1 witness: T2 was registered for CharField by register(CharField)(T2),
\* T1 for TextChoicesField, and the CharField field resolves to T2.
C1_Witness ==
    /\ call.op = "resolve"
    /\ call.model_field.name = "title"
    /\ recent["CharField"] = [type_ |-> SchemaType("T2"), shape |-> "type"]
    /\ recent["TextChoicesField"].type_ = SchemaType("T1")
    /\ call.ret = SchemaType("T2")

\* C2 (as claimed): the registry entry of every column class is the schema
\* type of the latest registration applied for it, and a resolution through
\* the registry returns that type.
C2_LastRegistrationWins ==
    \A A \in Registrable :
        recent[A] # NoRecent =>
            /\ field_type_map[A] = recent[A].type_
            /\ ( call.op = "resolve" /\ call.delegated /\ call.model_field.type = A )
                 => call.ret = recent[A].type_

\* C3: with the choice integration available, every resolution of a choices
\* field returns the one descriptor its enum class carries: all fields of an
\* enum class get the same descriptor every time, an enum class is wrapped at
\* most once, and one that carried a descriptor from the start is never
\* wrapped and keeps it.
C3_SameDescriptorEveryTime ==
    has_choices_field =>
        \A e \in EnumTypes :
            /\ \A x, y \in returned[e] : x.ret = y.ret
            /\ \A x \in returned[e] :
                  /\ x.ret = enum_definition[e]
                  /\ x.ret.tag = "EnumDefinition"
            /\ wraps[e] <= 1
            /\ SeedEnumDefinition[e] # None =>
                  /\ wraps[e] = 0
                  /\ enum_definition[e] = SeedEnumDefinition[e]

\* C3 witness: both fields of enum class Color and the field of the
\* pre-wrapped Kind have been resolved, Color having been wrapped once.
C3_Witness ==
    /\ has_choices_field
    /\ { x.field : x \in returned["Color"] } = {"color", "shade"}
    /\ returned["Kind"] # {}
    /\ wraps["Color"] = 1
    /\ call.op = "resolve"
    /\ call.model_field.name = "shade"

\* C4: a resolution of a non-choice field whose class has no registry entry
\* ends in UnsupportedFieldType; an exception leaving the resolver is always
\* the default resolution's own and leaves the registry and every enum
\* class's descriptor as they were; the enum branch never raises.
C4_UnsupportedFieldTypePropagates ==
    [][ call'.op = "resolve" =>
          /\ ( /\ ~IsInstance(call'.model_field, ChoiceKinds)
               /\ field_type_map[call'.model_field.type] = None )
             => call'.ret = Raise("UnsupportedFieldType")
          /\ call'.ret.tag = "raise" =>
                /\ call'.delegated
                /\ call'.ret = _resolve_model_field(call'.model_field, field_type_map)
                /\ field_type_map' = field_type_map
                /\ enum_definition' = enum_definition
          /\ ~call'.delegated => call'.ret.tag = "EnumDefinition" ]_vars

\* C4 witness: the ImageField field was resolved and UnsupportedFieldType
\* left the resolver, with the integration available and Color wrapped.
C4_Witness ==
    /\ call.op = "resolve"
    /\ call.model_field.name = "photo"
    /\ call.ret = Raise("UnsupportedFieldType")
    /\ has_choices_field
    /\ enum_definition["Color"] # None

\* C5 (as claimed): right after any application of a function register()
\* returned, every column class it was given maps to the applied schema type.
C5_EveryApplicationRecords ==
    call.op = "apply" => \A c \in Given : field_type_map[c] = call.type_

\* C6: the function register() returned gives back the very value it was
\* applied to.
C6_ReturnsItsArgument ==
    call.op = "apply" => call.ret = call.type_

\* C6 witness: a closure made with for_input=True over an empty iterable was
\* applied to T2 and returned it.
C6_Witness ==
    /\ call.op = "apply"
    /\ decorator.items = <<>>
    /\ decorator.for_input
    /\ call.ret = SchemaType("T2")

\* C7: with the integration available, a text-choices or integer-choices
\* field (or one of a subclass) resolves to its enum class's descriptor
\* without the default resolution being called, registry entry or not; every
\* other field resolves to exactly what the default resolution gives.
C7_EnumBranchFirst ==
    ( has_choices_field /\ call.op = "resolve" ) =>
        IF IsInstance(call.model_field, ChoiceKinds)
        THEN /\ ~call.delegated
             /\ call.ret = enum_definition[call.model_field.choices_enum]
             /\ call.ret.tag = "EnumDefinition"
             /\ call.ret.name = call.model_field.choices_enum
        ELSE /\ call.delegated
             /\ call.ret = _resolve_model_field(call.model_field, field_type_map)

\* C7 witness: TextChoicesField has a registration and the TextChoicesField
\* field still resolved to Color's descriptor.
C7_Witness ==
    /\ has_choices_field
    /\ call.op = "resolve"
    /\ call.model_field.name = "color"
    /\ field_type_map["TextChoicesField"] \in SchemaTypes
    /\ call.ret.tag = "EnumDefinition"

\* C8: has_choices_field never changes; while it is false every resolution,
\* of any field, is the default resolution's result or exception, and no
\* enum class is wrapped.
C8_IntegrationUnavailable ==
    [][ /\ has_choices_field' = has_choices_field
        /\ ( ~has_choices_field /\ call'.op = "resolve" ) =>
              /\ call'.delegated
              /\ call'.ret = _resolve_model_field(call'.model_field, field_type_map)
              /\ enum_definition' = enum_definition
              /\ wraps' = wraps ]_vars

\* C8 witness: without the integration, a TextChoicesField field (the
\* package is installed but the import of both names failed) was resolved
\* through the registry to its registered type, and no enum class was wrapped.
C8_Witness ==
    /\ ~has_choices_field
    /\ call.op = "resolve"
    /\ call.model_field.name = "color"
    /\ call.ret \in SchemaTypes
    /\ \A e \in EnumTypes : wraps[e] = 0

C10_RegistryFrame ==
    [][ /\ \A c \in ColumnTypes : field_type_map[c] # None => field_type_map'[c] # None
        /\ call'.op = "register" => field_type_map' = field_type_map
        /\ call'.op = "apply" =>
              \A c \in ColumnTypes \ Given : field_type_map'[c] = field_type_map[c]
        /\ call'.op = "resolve" => field_type_map' = field_type_map ]_vars

\* C10 witness: register(CharField) was applied while TextChoicesField held
\* a registration of the other schema type, which is still there.
C10_Witness ==
    /\ call.op = "apply"
    /\ Given = {"CharField"}
    /\ field_type_map["CharField"] = call.type_
    /\ field_type_map["TextChoicesField"] \in SchemaTypes \ {call.type_}

====
